---- MODULE Spec2Model ----
(***************************************************************************)
(* Model of translate_tableau.py: the escaper, the extractor, the          *)
(* translation gateway's reply parser, the substitution engine and the     *)
(* control flow of a run (main / translate_file).                          *)
(*                                                                         *)
(* Text is a sequence of one-character strings.  The newline character is  *)
(* written "\n", the backslash "\\" and the double quote "\"".             *)
(***************************************************************************)
EXTENDS Integers, Sequences, FiniteSets, TLC

VARIABLES
    \* escape_xml_attr(text)
    esc_text, esc_result,
    \* safe_replace(content, original, translated)
    sr_content, sr_original, sr_translated, sr_result,
    \* translate_with_claude(text_items, ...) on one service reply
    tw_items, tw_response, tw_result,
    \* extract_translatable_texts(content)
    ex_content, ex_result,
    \* translate_file, lines 344-356: the substitution loop
    ap_content, all_translations, sorted_translations, ap_index,
    translated_content, total_replacements, ap_log, ap_pc,
    \* a run of the program: module load, main, translate_file
    pc, credential, args_ok, io_fault, input_path, output_path, files, writes,
    printed, texts_by_type, cat_index, batch_start, gateway_log, backup_path,
    pre_valid, post_valid, escaped, exit_code

escVars   == <<esc_text, esc_result>>
srVars    == <<sr_content, sr_original, sr_translated, sr_result>>
twVars    == <<tw_items, tw_response, tw_result>>
exVars    == <<ex_content, ex_result>>
apVars    == <<ap_content, all_translations, sorted_translations, ap_index,
               translated_content, total_replacements, ap_log, ap_pc>>
runVars   == <<pc, credential, args_ok, io_fault, input_path, output_path,
               files, writes, printed, texts_by_type, cat_index, batch_start,
               gateway_log, backup_path, pre_valid, post_valid, escaped,
               exit_code>>
vars      == <<escVars, srVars, twVars, exVars, apVars, runVars>>

\* A value no operation produces: the state of a component that has not run.
None == "none"

(***************************************************************************)
(* Text helpers                                                            *)
(***************************************************************************)

\* All texts of length 0..n over the characters of alphabet.
RECURSIVE Texts(_, _)
Texts(alphabet, n) ==
    IF n = 0 THEN {<<>>}
    ELSE LET shorter == Texts(alphabet, n - 1)
         IN  shorter \cup {Append(t, c) : t \in {s \in shorter : Len(s) = n - 1},
                                          c \in alphabet}

\* text[i..] starts with lit
StartsAt(text, i, lit) ==
    /\ i + Len(lit) - 1 <= Len(text)
    /\ \A k \in 1..Len(lit) : text[i + k - 1] = lit[k]

\* str.replace(old, new) for a one-character old
RECURSIVE str_replace(_, _, _)
str_replace(text, old, new) ==
    IF text = <<>> THEN <<>>
    ELSE (IF Head(text) = old THEN new ELSE <<Head(text)>>)
         \o str_replace(Tail(text), old, new)

(***************************************************************************)
(* Escaper                                                                 *)
(***************************************************************************)

AMP  == <<"&", "a", "m", "p", ";">>
LT   == <<"&", "l", "t", ";">>
GT   == <<"&", "g", "t", ";">>
APOS == <<"&", "a", "p", "o", "s", ";">>
QUOT == <<"&", "q", "u", "o", "t", ";">>

\* The ampersand replaced last instead of first.
escape_xml_attr_amp_last(text) ==
    LET t1 == str_replace(text, "<", LT)
        t2 == str_replace(t1, ">", GT)
        t3 == str_replace(t2, "'", APOS)
        t4 == str_replace(t3, "\"", QUOT)
    IN  str_replace(t4, "&", AMP)

escape_xml_attr(text) ==
    LET t1 == str_replace(text, "&", AMP)
        t2 == str_replace(t1, "<", LT)
        t3 == str_replace(t2, ">", GT)
        t4 == str_replace(t3, "'", APOS)
    IN  str_replace(t4, "\"", QUOT)

\* The five entities and the character each stands for.
Entities == { <<AMP, "&">>, <<LT, "<">>, <<GT, ">">>, <<APOS, "'">>,
              <<QUOT, "\"">> }

EntityAt(text, i) == {e \in Entities : StartsAt(text, i, e[1])}

\* Reading text as an attribute value: every entity is replaced by its
\* character.  Malformed (an ampersand that starts no entity, a raw < or a
\* raw quote) reads as <<None>>.
RECURSIVE attr_value(_, _)
attr_value(text, i) ==
    IF i > Len(text) THEN <<>>
    ELSE IF text[i] = "&"
         THEN IF EntityAt(text, i) = {} THEN <<None>>
              ELSE LET e == CHOOSE x \in EntityAt(text, i) : TRUE
                       rest == attr_value(text, i + Len(e[1]))
                   IN  IF rest = <<None>> THEN rest ELSE <<e[2]>> \o rest
         ELSE IF text[i] \in {"<", "'", "\""} THEN <<None>>
              ELSE LET rest == attr_value(text, i + 1)
                   IN  IF rest = <<None>> THEN rest ELSE <<text[i]>> \o rest

MaxEscLen == 4
EscAlphabet == {"&", "<", ">", "'", "\"", "l", "t", ";"}

EscapeIdle == esc_text = <<>> /\ esc_result = <<>>

EscapeInit ==
    /\ esc_text \in Texts(EscAlphabet, MaxEscLen)
    /\ esc_result = <<>>

\* One call of escape_xml_attr; esc_result holds what it returned.
Escape ==
    /\ esc_result = <<>>
    /\ esc_result' = <<escape_xml_attr(esc_text)>>
    /\ UNCHANGED esc_text


(***************************************************************************)
(* The pattern engine: what re.escape, re.subn and a replacement template  *)
(* do for the patterns of safe_replace.                                    *)
(***************************************************************************)

\* \s and what str.strip() removes, of the characters a string of the model
\* can hold.
Whitespace == {" ", "\n", "\t", "\r", "\f"}
Digits     == {"0", "1", "2", "3", "4", "5", "6", "7", "8", "9"}
OctDigits  == {"0", "1", "2", "3", "4", "5", "6", "7"}
DigitVal   == [c \in Digits |->
                 CASE c = "0" -> 0 [] c = "1" -> 1 [] c = "2" -> 2
                   [] c = "3" -> 3 [] c = "4" -> 4 [] c = "5" -> 5
                   [] c = "6" -> 6 [] c = "7" -> 7 [] c = "8" -> 8
                   [] c = "9" -> 9]
\* The ASCII letters; after a backslash the letters a b f n r t v are
\* escapes of a template, every other letter after a backslash is an error.
AsciiLetters ==
    {"A", "B", "C", "D", "E", "F", "G", "H", "I", "J", "K", "L", "M", "N",
     "O", "P", "Q", "R", "S", "T", "U", "V", "W", "X", "Y", "Z", "a", "b",
     "c", "d", "e", "f", "g", "h", "i", "j", "k", "l", "m", "n", "o", "p",
     "q", "r", "s", "t", "u", "v", "w", "x", "y", "z"}
TemplateEscapes == {"a", "b", "f", "n", "r", "t", "v", "\\"}

\* The characters with the codes 32 to 126.
Printable ==
    <<" ", "!", "\"", "#", "$", "%", "&", "'", "(", ")", "*", "+", ",",
      "-", ".", "/", "0", "1", "2", "3", "4", "5", "6", "7", "8", "9", ":",
      ";", "<", "=", ">", "?", "@", "A", "B", "C", "D", "E", "F", "G", "H",
      "I", "J", "K", "L", "M", "N", "O", "P", "Q", "R", "S", "T", "U", "V",
      "W", "X", "Y", "Z", "[", "\\", "]", "^", "_", "chr96", "a", "b", "c",
      "d", "e", "f", "g", "h", "i", "j", "k", "l", "m", "n", "o", "p", "q",
      "r", "s", "t", "u", "v", "w", "x", "y", "z", "{", "|", "}", "~">>

\* The character with code n; a character no string can be written with
\* stands as "chr" and its code.
Chr(n) == CASE n = 9  -> "\t"
            [] n = 10 -> "\n"
            [] n = 12 -> "\f"
            [] n = 13 -> "\r"
            [] n >= 32 /\ n <= 126 -> Printable[n - 31]
            [] OTHER  -> "chr" \o ToString(n)

EscapeChar(c) == CASE c = "n"  -> Chr(10)
                   [] c = "t"  -> Chr(9)
                   [] c = "\\" -> Chr(92)
                   [] c = "a"  -> Chr(7)
                   [] c = "b"  -> Chr(8)
                   [] c = "f"  -> Chr(12)
                   [] c = "r"  -> Chr(13)
                   [] c = "v"  -> Chr(11)

\* re.escape: a backslash before every character that is special in a
\* pattern; a quote, < and > are not.
RegexSpecial == {"(", ")", "[", "]", "{", "}", "?", "*", "+", "-", "|", "^",
                 "$", "\\", ".", "&", "~", "#", " ", "\t", "\n", "\r", "\f"}
RECURSIVE re_escape(_)
re_escape(text) ==
    IF text = <<>> THEN <<>>
    ELSE (IF Head(text) \in RegexSpecial THEN <<"\\", Head(text)>>
          ELSE <<Head(text)>>) \o re_escape(Tail(text))

\* The text an escaped pattern matches: a backslash makes the next character
\* literal, "." matches any one character (written as the wildcard AnyChar).
AnyChar == "ANY"
RECURSIVE pattern_literal(_)
pattern_literal(pat) ==
    IF pat = <<>> THEN <<>>
    ELSE IF Head(pat) = "\\" /\ Len(pat) >= 2
         THEN <<pat[2]>> \o pattern_literal(Tail(Tail(pat)))
         ELSE <<(IF Head(pat) = "." THEN AnyChar ELSE Head(pat))>>
              \o pattern_literal(Tail(pat))

\* text[i..] matches the pattern characters lit (AnyChar matches one character
\* other than a newline)
MatchesAt(text, i, lit) ==
    /\ i + Len(lit) - 1 <= Len(text)
    /\ \A k \in 1..Len(lit) :
          \/ text[i + k - 1] = lit[k]
          \/ lit[k] = AnyChar /\ text[i + k - 1] # "\n"

\* A part of a parsed template: a literal character (grp = 0) or a group.
Lit(c) == [grp |-> 0, chr |-> c]
Grp(n) == [grp |-> n, chr |-> ""]
TemplateError == [ok |-> FALSE, parts |-> <<>>]

\* parse_template of the re module, for a pattern with three groups, from
\* position i of the replacement on, parts being what is parsed so far: the
\* parts of the replacement, or TemplateError where re.error is raised.
NumGroups == 3
RECURSIVE parse_template(_, _, _)
parse_template(src, i, parts) ==
    IF i > Len(src) THEN [ok |-> TRUE, parts |-> parts]
    ELSE IF src[i] # "\\"
    THEN parse_template(src, i + 1, Append(parts, Lit(src[i])))
    ELSE IF i = Len(src) THEN TemplateError       \* bad escape (end of pattern)
    ELSE
      LET c  == src[i + 1]
          d1 == IF i + 2 <= Len(src) THEN src[i + 2] ELSE ""
          d2 == IF i + 3 <= Len(src) THEN src[i + 3] ELSE ""
      IN
      IF c = "g" THEN TemplateError   \* "missing <": no raw < follows, it is escaped
      ELSE IF c = "0" THEN
        IF d1 \in OctDigits /\ d2 \in OctDigits
        THEN parse_template(src, i + 4,
                 Append(parts, Lit(Chr((DigitVal[d1] * 8 + DigitVal[d2]) % 256))))
        ELSE IF d1 \in OctDigits
        THEN parse_template(src, i + 3, Append(parts, Lit(Chr(DigitVal[d1]))))
        ELSE parse_template(src, i + 2, Append(parts, Lit(Chr(0))))
      ELSE IF c \in Digits THEN
        IF d1 \in Digits
        THEN IF c \in OctDigits /\ d1 \in OctDigits /\ d2 \in OctDigits
             THEN IF DigitVal[c] * 64 + DigitVal[d1] * 8 + DigitVal[d2] > 255
                  THEN TemplateError              \* octal escape out of range
                  ELSE parse_template(src, i + 4,
                           Append(parts, Lit(Chr(DigitVal[c] * 64 + DigitVal[d1] * 8
                                                 + DigitVal[d2]))))
             ELSE IF DigitVal[c] * 10 + DigitVal[d1] > NumGroups
                  THEN TemplateError              \* invalid group reference
                  ELSE parse_template(src, i + 3,
                           Append(parts, Grp(DigitVal[c] * 10 + DigitVal[d1])))
        ELSE IF DigitVal[c] > NumGroups THEN TemplateError
             ELSE parse_template(src, i + 2, Append(parts, Grp(DigitVal[c])))
      ELSE IF c \in TemplateEscapes
        THEN parse_template(src, i + 2, Append(parts, Lit(EscapeChar(c))))
      ELSE IF c \in AsciiLetters THEN TemplateError          \* bad escape
      ELSE parse_template(src, i + 2, parts \o <<Lit("\\"), Lit(c)>>)

\* The text a parsed template stands for, given the three groups of a match.
RECURSIVE expand(_, _)
expand(parts, groups) ==
    IF parts = <<>> THEN <<>>
    ELSE (IF Head(parts).grp = 0 THEN <<Head(parts).chr>>
          ELSE groups[Head(parts).grp]) \o expand(Tail(parts), groups)

\* The member of a set of one member.  Only({f(x) : x \in {e}}) is f(e)
\* with e evaluated once.
Only(S) == CHOOSE v \in S : TRUE

Min(S) == CHOOSE x \in S : \A y \in S : x <= y
Max(S) == CHOOSE x \in S : \A y \in S : y <= x

\* The number of consecutive characters of text from position p on that are
\* in the class: every character but excl ([^>]*, [^']+), or whitespace.
run_length(text, p, excl) ==
    LET stop(k) == IF excl = "WS" THEN text[k] \notin Whitespace
                   ELSE text[k] = excl
    IN  Min({k \in p..(Len(text) + 1) : k > Len(text) \/ stop(k)}
            \cup {Len(text) + 1}) - p


\* The tail of a rule from position r on: \s* (when ws), the original, \s*
\* (when ws), the closing anchor.  [g2 |-> where group 2 starts, end |-> the
\* position after the match], or NoTail.  A greedy \s* gives back
\* characters until the rest matches.
NoTail == [g2 |-> 0, end |-> 0]
tail_match(text, r, ws, orig, suf) ==
    IF ~ws
    THEN IF MatchesAt(text, r, orig) /\ StartsAt(text, r + Len(orig), suf)
         THEN [g2 |-> r, end |-> r + Len(orig) + Len(suf)]
         ELSE NoTail
    ELSE LET W2(s) == {w \in 0..run_length(text, s, "WS") :
                          StartsAt(text, s + w, suf)}
             W1 == {w \in 0..run_length(text, r, "WS") :
                      /\ MatchesAt(text, r + w, orig)
                      /\ W2(r + w + Len(orig)) # {}}
         IN  IF W1 = {} THEN NoTail
             ELSE LET s == r + Max(W1) + Len(orig)
                  IN  [g2 |-> r + Max(W1), end |-> s + Max(W2(s)) + Len(suf)]

\* One alternative of a rule's opening anchor: the literal a, then a run of
\* at least min characters other than excl (no run when excl = None), then
\* the literal b.  Tried at position i of text: the match as
\* [g1 |-> position after group 1, g2 |-> where group 2 starts,
\*  end |-> position after the match], or NoMatch.  The greedy run gives
\* back characters until the rest of the rule matches.
NoMatch == [g1 |-> 0, g2 |-> 0, end |-> 0]
alt_match(text, i, alt, ws, orig, suf) ==
    IF ~StartsAt(text, i, alt.a) THEN NoMatch
    ELSE LET p  == i + Len(alt.a)
             hi == IF alt.excl = None THEN 0 ELSE run_length(text, p, alt.excl)
             N  == {n \in alt.min..hi :
                      /\ StartsAt(text, p + n, alt.b)
                      /\ tail_match(text, p + n + Len(alt.b), ws, orig, suf).end # 0}
         IN  IF N = {} THEN NoMatch
             ELSE LET r == p + Max(N) + Len(alt.b)
                      t == tail_match(text, r, ws, orig, suf)
                  IN  [g1 |-> r, g2 |-> t.g2, end |-> t.end]

\* The first alternative of the rule that matches at position i.
RECURSIVE rule_match(_, _, _, _, _)
rule_match(text, i, alts, rule, orig) ==
    IF alts = <<>> THEN NoMatch
    ELSE LET m == alt_match(text, i, Head(alts), rule.ws, orig, rule.suf)
         IN  IF m.g1 # 0 THEN m
             ELSE rule_match(text, i, Tail(alts), rule, orig)

\* The leftmost match of the rule at or after position pos, or NoMatch;
\* at is where it starts.
first_match(text, pos, rule, orig) ==
    LET first  == {rule.alts[k].a[1] : k \in DOMAIN rule.alts}
        starts == {i \in pos..Len(text) :
                     /\ text[i] \in first
                     /\ rule_match(text, i, rule.alts, rule, orig).g1 # 0}
    IN  Only({IF st = {} THEN [at |-> 0, m |-> NoMatch]
              ELSE [at |-> Min(st),
                    m  |-> rule_match(text, Min(st), rule.alts, rule, orig)] :
              st \in {starts}})

\* re.subn(pattern, template, text) from position pos on, done being the
\* text produced so far and count the matches so far: every non-overlapping
\* match, leftmost first, is replaced by the expansion of the template's
\* parts; orig is the compiled text of the original.
\* [text |-> the new text, count |-> the number of matches].
RECURSIVE re_subn(_, _, _, _, _, _, _)
re_subn(text, pos, rule, orig, parts, done, count) ==
    Only({IF f.at = 0
          THEN [text |-> done \o SubSeq(text, pos, Len(text)), count |-> count]
          ELSE Only({re_subn(text, n.pos, rule, orig, parts, n.done, count + 1) :
                     n \in {[pos  |-> f.m.end,
                             done |-> done \o SubSeq(text, pos, f.at - 1)
                                      \o expand(parts,
                                                << SubSeq(text, f.at, f.m.g1 - 1),
                                                   SubSeq(text, f.m.g2,
                                                          f.m.g2 + Len(orig) - 1),
                                                   rule.suf >>)]}}) :
          f \in {first_match(text, pos, rule, orig)}})

(***************************************************************************)
(* Substitution engine: safe_replace                                       *)
(***************************************************************************)

\* The thirteen rules.  A rule is its opening anchor (group 1: one or more
\* alternatives), whether \s* surrounds the original, and its closing anchor
\* (group 3); group 2 is the escaped original.
\* 1. Worksheet/Dashboard name definitions
pattern1 ==
    [alts |-> <<
          [a |-> <<"<", "w", "o", "r", "k", "s", "h", "e", "e", "t", " ",
                 "n", "a", "m", "e", "=", "'">>,
           excl |-> None, min |-> 0, b |-> <<>>],
          [a |-> <<"<", "d", "a", "s", "h", "b", "o", "a", "r", "d", " ",
                 "n", "a", "m", "e", "=", "'">>,
           excl |-> None, min |-> 0, b |-> <<>>] >>,
     ws |-> FALSE, suf |-> <<"'">>]
\* 1b. Dashboard references
pattern1b ==
    [alts |-> <<
          [a |-> <<"d", "a", "s", "h", "b", "o", "a", "r", "d", "=", "'">>,
           excl |-> None, min |-> 0, b |-> <<>>] >>,
     ws |-> FALSE, suf |-> <<"'">>]
\* 1c. Worksheet references
pattern1c ==
    [alts |-> <<
          [a |-> <<"w", "o", "r", "k", "s", "h", "e", "e", "t", "=", "'">>,
           excl |-> None, min |-> 0, b |-> <<>>] >>,
     ws |-> FALSE, suf |-> <<"'">>]
\* 1d. Zone name references
pattern1d ==
    [alts |-> <<
          [a |-> <<"<", "z", "o", "n", "e">>,
           excl |-> ">", min |-> 0, b |-> <<"n", "a", "m", "e", "=", "'">>] >>,
     ws |-> FALSE, suf |-> <<"'">>]
\* 1e. Action target values
pattern1e ==
    [alts |-> <<
          [a |-> <<"<", "p", "a", "r", "a", "m", " ", "n", "a", "m", "e",
                 "=", "'", "t", "a", "r", "g", "e", "t", "'", " ", "v", "a",
                 "l", "u", "e", "=", "'">>,
           excl |-> None, min |-> 0, b |-> <<>>] >>,
     ws |-> FALSE, suf |-> <<"'">>]
\* 1f. Window names
pattern1f ==
    [alts |-> <<
          [a |-> <<"<", "w", "i", "n", "d", "o", "w", " ", "c", "l", "a",
                 "s", "s", "=", "'", "w", "o", "r", "k", "s", "h", "e", "e",
                 "t", "'">>,
           excl |-> ">", min |-> 0, b |-> <<"n", "a", "m", "e", "=", "'">>],
          [a |-> <<"<", "w", "i", "n", "d", "o", "w", " ", "c", "l", "a",
                 "s", "s", "=", "'", "d", "a", "s", "h", "b", "o", "a", "r",
                 "d", "'">>,
           excl |-> ">", min |-> 0, b |-> <<"n", "a", "m", "e", "=", "'">>] >>,
     ws |-> FALSE, suf |-> <<"'">>]
\* 1g. Thumbnail names
pattern1g ==
    [alts |-> <<
          [a |-> <<"<", "t", "h", "u", "m", "b", "n", "a", "i", "l">>,
           excl |-> ">", min |-> 0, b |-> <<"n", "a", "m", "e", "=", "'">>] >>,
     ws |-> FALSE, suf |-> <<"'">>]
\* 1h. Viewpoint names
pattern1h ==
    [alts |-> <<
          [a |-> <<"<", "v", "i", "e", "w", "p", "o", "i", "n", "t">>,
           excl |-> ">", min |-> 0, b |-> <<"n", "a", "m", "e", "=", "'">>] >>,
     ws |-> FALSE, suf |-> <<"'">>]
\* 2. Captions
pattern2 ==
    [alts |-> <<
          [a |-> <<"c", "a", "p", "t", "i", "o", "n", "=", "'">>,
           excl |-> None, min |-> 0, b |-> <<>>] >>,
     ws |-> FALSE, suf |-> <<"'">>]
\* 3. Alias values
pattern3 ==
    [alts |-> <<
          [a |-> <<"<", "a", "l", "i", "a", "s", " ", "k", "e", "y", "=",
                 "'">>,
           excl |-> "'", min |-> 1, b |-> <<"'", " ", "v", "a", "l", "u", "e", "=", "'">>] >>,
     ws |-> FALSE, suf |-> <<"'", " ", "/", ">">>]
\* 4. Member aliases
pattern4 ==
    [alts |-> <<
          [a |-> <<"<", "m", "e", "m", "b", "e", "r", " ", "a", "l", "i",
                 "a", "s", "=", "'">>,
           excl |-> None, min |-> 0, b |-> <<>>] >>,
     ws |-> FALSE, suf |-> <<"'">>]
\* 5. Run tags (text content)
pattern5 ==
    [alts |-> <<
          [a |-> <<"<", "r", "u", "n">>,
           excl |-> ">", min |-> 0, b |-> <<">">>] >>,
     ws |-> FALSE, suf |-> <<"<", "/", "r", "u", "n", ">">>]
\* 5b. Run tags with leading/trailing whitespace
pattern5b ==
    [alts |-> <<
          [a |-> <<"<", "r", "u", "n">>,
           excl |-> ">", min |-> 0, b |-> <<">">>] >>,
     ws |-> TRUE, suf |-> <<"<", "/", "r", "u", "n", ">">>]

Rules == <<pattern1, pattern1b, pattern1c, pattern1d, pattern1e, pattern1f,
           pattern1g, pattern1h, pattern2, pattern3, pattern4, pattern5,
           pattern5b>>


\* The rules applied in order, each to the text the one before produced,
\* the counts added up.
RECURSIVE apply_rules(_, _, _, _, _)
apply_rules(content, rules, orig, parts, replacements) ==
    IF rules = <<>>
    THEN [content |-> content, count |-> replacements, raised |-> FALSE]
    ELSE Only({apply_rules(r.text, Tail(rules), orig, parts,
                           replacements + r.count) :
               r \in {re_subn(content, 1, Head(rules), orig, parts, <<>>, 0)}})

\* The replacement template f"\\1{xml_safe_translated}\\3"
template_of(xml_safe_translated) ==
    <<"\\", "1">> \o xml_safe_translated \o <<"\\", "3">>

\* safe_replace without the guard's test original == translated.
safe_replace_no_equal_guard(content, original, translated) ==
    IF original = <<>> \/ translated = <<>>
    THEN [content |-> content, count |-> 0, raised |-> FALSE]
    ELSE LET template == parse_template(template_of(escape_xml_attr(translated)), 1, <<>>)
         IN  IF ~template.ok
             THEN [content |-> content, count |-> 0, raised |-> TRUE]
             ELSE apply_rules(content, Rules,
                              pattern_literal(re_escape(original)),
                              template.parts, 0)

\* safe_replace(content, original, translated): the new content and the
\* number of replacements, or raised when re.subn raises re.error on the
\* template (it parses the template before it looks for a match).
safe_replace(content, original, translated) ==
    IF original = <<>> \/ translated = <<>> \/ original = translated
    THEN [content |-> content, count |-> 0, raised |-> FALSE]
    ELSE LET escaped_original    == re_escape(original)
             xml_safe_translated == escape_xml_attr(translated)
             template == parse_template(template_of(xml_safe_translated), 1, <<>>)
         IN  IF ~template.ok
             THEN [content |-> content, count |-> 0, raised |-> TRUE]
             ELSE apply_rules(content, Rules, pattern_literal(escaped_original),
                              template.parts, 0)

\* The places of a document a value can stand in: what precedes the value
\* and what follows it.
Contexts == {
    <<<<"<", "w", "o", "r", "k", "s", "h", "e", "e", "t", " ", "n", "a",
      "m", "e", "=", "'">>,
      <<"'", ">">>>>,
    <<<<"<", "d", "a", "s", "h", "b", "o", "a", "r", "d", " ", "n", "a",
      "m", "e", "=", "'">>,
      <<"'", ">">>>>,
    <<<<"<", "s", " ", "d", "a", "s", "h", "b", "o", "a", "r", "d", "=",
      "'">>,
      <<"'", "/", ">">>>>,
    <<<<"<", "s", " ", "w", "o", "r", "k", "s", "h", "e", "e", "t", "=",
      "'">>,
      <<"'", "/", ">">>>>,
    <<<<"<", "z", "o", "n", "e", " ", "i", "d", "=", "'", "1", "'", " ",
      "n", "a", "m", "e", "=", "'">>,
      <<"'", "/", ">">>>>,
    <<<<"<", "p", "a", "r", "a", "m", " ", "n", "a", "m", "e", "=", "'",
      "t", "a", "r", "g", "e", "t", "'", " ", "v", "a", "l", "u", "e", "=",
      "'">>,
      <<"'", "/", ">">>>>,
    <<<<"<", "p", "a", "r", "a", "m", " ", "n", "a", "m", "e", "=", "'",
      "o", "t", "h", "e", "r", "'", " ", "v", "a", "l", "u", "e", "=", "'">>,
      <<"'", "/", ">">>>>,
    <<<<"<", "w", "i", "n", "d", "o", "w", " ", "c", "l", "a", "s", "s",
      "=", "'", "w", "o", "r", "k", "s", "h", "e", "e", "t", "'", " ", "n",
      "a", "m", "e", "=", "'">>,
      <<"'", ">">>>>,
    <<<<"<", "w", "i", "n", "d", "o", "w", " ", "c", "l", "a", "s", "s",
      "=", "'", "d", "a", "s", "h", "b", "o", "a", "r", "d", "'", " ", "m",
      "=", "'", "1", "'", " ", "n", "a", "m", "e", "=", "'">>,
      <<"'", ">">>>>,
    <<<<"<", "w", "i", "n", "d", "o", "w", " ", "c", "l", "a", "s", "s",
      "=", "'", "o", "t", "h", "e", "r", "'", " ", "n", "a", "m", "e", "=",
      "'">>,
      <<"'", ">">>>>,
    <<<<"<", "t", "h", "u", "m", "b", "n", "a", "i", "l", " ", "n", "a",
      "m", "e", "=", "'">>,
      <<"'", ">">>>>,
    <<<<"<", "v", "i", "e", "w", "p", "o", "i", "n", "t", " ", "n", "a",
      "m", "e", "=", "'">>,
      <<"'", ">">>>>,
    <<<<"<", "c", " ", "c", "a", "p", "t", "i", "o", "n", "=", "'">>,
      <<"'", "/", ">">>>>,
    <<<<"<", "a", "l", "i", "a", "s", " ", "k", "e", "y", "=", "'", "k",
      "'", " ", "v", "a", "l", "u", "e", "=", "'">>,
      <<"'", " ", "/", ">">>>>,
    <<<<"<", "a", "l", "i", "a", "s", " ", "k", "e", "y", "=", "'", "'", 
      " ", "v", "a", "l", "u", "e", "=", "'">>,
      <<"'", " ", "/", ">">>>>,
    <<<<"<", "m", "e", "m", "b", "e", "r", " ", "a", "l", "i", "a", "s",
      "=", "'">>,
      <<"'", "/", ">">>>>,
    <<<<"<", "r", "u", "n", ">">>,
      <<"<", "/", "r", "u", "n", ">">>>>,
    <<<<"<", "r", "u", "n", " ", "b", "=", "'", "1", "'", ">", " ">>,
      <<" ", "\n", "<", "/", "r", "u", "n", ">">>>> }

\* Elements that name one value twice, or hold two values.
CaptionContext == <<<<"<", "c", " ", "c", "a", "p", "t", "i", "o", "n", "=", "'">>,
                    <<"'", "/", ">">>>>
RunContext     == <<<<"<", "r", "u", "n", ">">>, <<"<", "/", "r", "u", "n", ">">>>>
ZoneContext    == <<<<"<", "z", "o", "n", "e", " ", "n", "a", "m", "e", "=", "'">>,
                    <<"'", " ", "n", "a", "m", "e", "=", "'", "A", "'", "/", ">">>>>

Element(c, v) == c[1] \o v \o c[2]

DocValues == { <<"A">>, <<"A", "B">>, <<"A", ".">> }

SrDocuments ==
    {Element(c, <<"A">>) : c \in Contexts}
    \cup {Element(c, v) : c \in {CaptionContext, RunContext}, v \in DocValues}
    \cup {Element(c, v) \o Element(d, <<"A">>) :
            c \in {CaptionContext, ZoneContext}, d \in {CaptionContext, RunContext},
            v \in DocValues}

MaxTrLen == 2
TrAlphabet == {"A", "1", "\\", "&"}
SrOriginals == { <<>>, <<"A">>, <<"A", ".">> }

\* The call record of the last safe_replace: its content argument and what
\* it returned.
SrCall(content, r) ==
    [arg |-> content, content |-> r.content, count |-> r.count,
     raised |-> r.raised]

MaxPasses == 2

ReplaceIdle ==
    /\ sr_content = <<>> /\ sr_original = <<>> /\ sr_translated = <<>>
    /\ sr_result = <<>>

ReplaceInit ==
    /\ sr_content \in SrDocuments
    /\ sr_original \in SrOriginals
    /\ sr_translated \in Texts(TrAlphabet, MaxTrLen)
    /\ sr_result = <<>>

\* content, count = safe_replace(content, original, translated); sr_result
\* holds the call records of the passes made so far.
Replace ==
    /\ Len(sr_result) < MaxPasses
    /\ IF sr_result = <<>> THEN TRUE ELSE ~sr_result[Len(sr_result)].raised
    /\ LET r == safe_replace(sr_content, sr_original, sr_translated)
       IN  /\ sr_result' = Append(sr_result, SrCall(sr_content, r))
           /\ sr_content' = r.content
    /\ UNCHANGED <<sr_original, sr_translated>>


(***************************************************************************)
(* Translation gateway: translate_with_claude                              *)
(***************************************************************************)

\* A dict keeps its keys in insertion order: a sequence of <<key, value>>.
\* d[k] = v replaces the value of a key already present, in place.
dict_keys(d) == {d[i][1] : i \in 1..Len(d)}
dict_get(d, k) == d[CHOOSE i \in 1..Len(d) : d[i][1] = k][2]
dict_set(d, k, v) ==
    IF k \in dict_keys(d)
    THEN [i \in 1..Len(d) |-> IF d[i][1] = k THEN <<k, v>> ELSE d[i]]
    ELSE Append(d, <<k, v>>)
RECURSIVE dict_update(_, _)
dict_update(d, e) ==
    IF e = <<>> THEN d
    ELSE dict_update(dict_set(d, Head(e)[1], Head(e)[2]), Tail(e))

\* str.strip(chars): the characters of the set removed from both ends.
RECURSIVE lstrip(_, _)
lstrip(text, chars) ==
    IF text # <<>> /\ Head(text) \in chars THEN lstrip(Tail(text), chars)
    ELSE text
RECURSIVE rstrip(_, _)
rstrip(text, chars) ==
    IF text # <<>> /\ text[Len(text)] \in chars
    THEN rstrip(SubSeq(text, 1, Len(text) - 1), chars)
    ELSE text
strip(text, chars) == rstrip(lstrip(text, chars), chars)

\* str.split('\n'): the lines of text (one more than its newlines)
RECURSIVE split_lines(_)
split_lines(text) ==
    LET n == run_length(text, 1, "\n")
    IN  IF n = Len(text) THEN <<text>>
        ELSE <<SubSeq(text, 1, n)>> \o split_lines(SubSeq(text, n + 2, Len(text)))

\* re.match(r'^\d+\.\s*(.*)', line): [ok, rest] with rest = group 1
NoNumber == [ok |-> FALSE, rest |-> <<>>]
RECURSIVE digit_run(_, _)
digit_run(line, p) ==
    IF p <= Len(line) /\ line[p] \in Digits THEN 1 + digit_run(line, p + 1)
    ELSE 0
match_numbered(line) ==
    LET d == digit_run(line, 1)
    IN  IF d = 0 \/ d + 1 > Len(line) \/ line[d + 1] # "." THEN NoNumber
        ELSE [ok |-> TRUE, rest |-> lstrip(SubSeq(line, d + 2, Len(line)), Whitespace)]

\* translated = match.group(1).strip(); translated.strip('"').strip("'")
clean_translation(rest) ==
    strip(strip(strip(rest, Whitespace), {"\""}), {"'"})

\* The loop over the lines of the reply, from line index i (0-based) on.
RECURSIVE parse_lines(_, _, _, _)
parse_lines(lines, i, text_items, translations) ==
    IF i >= Len(lines) THEN translations
    ELSE LET match == match_numbered(lines[i + 1])
         IN  parse_lines(lines, i + 1, text_items,
                 IF match.ok /\ i < Len(text_items)
                 THEN dict_set(translations, text_items[i + 1],
                               clean_translation(match.rest))
                 ELSE translations)

\* What the service call did: it raised, or it returned a reply text.
Raised      == [raised |-> TRUE, text |-> <<>>]
Reply(text) == [raised |-> FALSE, text |-> text]

\* translate_with_claude with no except clause: the exception propagates.
translate_with_claude_no_except(text_items, response) ==
    IF text_items = <<>> THEN [raised |-> FALSE, translations |-> <<>>]
    ELSE IF response.raised THEN [raised |-> TRUE, translations |-> <<>>]
    ELSE [raised |-> FALSE,
          translations |-> parse_lines(split_lines(strip(response.text, Whitespace)),
                                       0, text_items, <<>>)]

\* translate_with_claude(text_items, ...) given what the service call did:
\* the mapping returned, and whether an exception leaves the function.
translate_with_claude(text_items, response) ==
    IF text_items = <<>> THEN [raised |-> FALSE, translations |-> <<>>]
    ELSE IF response.raised
    THEN [raised |-> FALSE, translations |-> <<>>]      \* except Exception
    ELSE [raised |-> FALSE,
          translations |-> parse_lines(split_lines(strip(response.text, Whitespace)),
                                       0, text_items, <<>>)]

\* Replies: a first line made of a numbering, a run of quotes, a body and a
\* run of quotes, then one of a few tails of further lines.
MaxQuotes == 2
TwNumberings == { <<"1", ".", " ">>, <<"7", ".">>, <<"1", "2", ".", " ", " ">>,
                  <<>>, <<" ", "1", ".", " ">>, <<"1", " ">> }
TwBodies == { <<"T">>, <<>>, <<"T", " ", "\"", "T">> }
TwTails == { <<>>,
             <<"\n", "2", ".", " ", "U">>,
             <<"\n", "U", "\n", "3", ".", "U", " ">>,
             <<"\n", "\n", "9", ".", " ", "'", "U", "'", "\n">>,
             <<" ", "\n", "2", ".", "U", "\n", "3", ".", "V", "\n", "4", ".", "W">> }
TwItemLists == { <<>>, << <<"A">> >>, << <<"A">>, <<"B">> >>,
                 << <<"A">>, <<"B">>, <<"A", "B">> >> }
TwReplies ==
    {n \o q1 \o b \o q2 \o t :
        n \in TwNumberings, q1 \in Texts({"\"", "'"}, MaxQuotes), b \in TwBodies,
        q2 \in Texts({"\"", "'"}, MaxQuotes), t \in TwTails}

ParseIdle == tw_items = <<>> /\ tw_response = Raised /\ tw_result = <<>>

ParseInit ==
    /\ tw_items \in TwItemLists
    /\ tw_response \in {Raised} \cup {Reply(t) : t \in TwReplies}
    /\ tw_result = <<>>

\* One call of translate_with_claude; tw_result holds what it returned.
Translate ==
    /\ tw_result = <<>>
    /\ tw_result' = <<translate_with_claude(tw_items, tw_response)>>
    /\ UNCHANGED <<tw_items, tw_response>>

(***************************************************************************)
(* Extractor: extract_translatable_texts                                   *)
(***************************************************************************)

\* An extraction pattern: the literal a, a run of at least min characters
\* other than excl (none when excl = None), the literal b, the captured
\* value (one or more characters other than value), the literal suf.
\* r"<worksheet name='([^']+)'>"
worksheet_pattern ==
    [a |-> <<"<", "w", "o", "r", "k", "s", "h", "e", "e", "t", " ", "n",
             "a", "m", "e", "=", "'">>,
     excl |-> None, min |-> 0, b |-> <<>>,
     value |-> "'", suf |-> <<"'", ">">>]
\* r"<dashboard name='([^']+)'>"
dashboard_pattern ==
    [a |-> <<"<", "d", "a", "s", "h", "b", "o", "a", "r", "d", " ", "n",
             "a", "m", "e", "=", "'">>,
     excl |-> None, min |-> 0, b |-> <<>>,
     value |-> "'", suf |-> <<"'", ">">>]
\* r"caption='([^']+)'"
caption_pattern ==
    [a |-> <<"c", "a", "p", "t", "i", "o", "n", "=", "'">>,
     excl |-> None, min |-> 0, b |-> <<>>,
     value |-> "'", suf |-> <<"'">>]
\* r"<alias key='[^']+' value='([^']+)' />"
alias_pattern ==
    [a |-> <<"<", "a", "l", "i", "a", "s", " ", "k", "e", "y", "=", "'">>,
     excl |-> "'", min |-> 1, b |-> <<"'", " ", "v", "a", "l", "u", "e", "=", "'">>,
     value |-> "'", suf |-> <<"'", " ", "/", ">">>]
\* r"<member alias='([^']+)'"
member_pattern ==
    [a |-> <<"<", "m", "e", "m", "b", "e", "r", " ", "a", "l", "i", "a",
             "s", "=", "'">>,
     excl |-> None, min |-> 0, b |-> <<>>,
     value |-> "'", suf |-> <<"'">>]
\* r"<run[^>]*>([^<]+)</run>"
run_pattern ==
    [a |-> <<"<", "r", "u", "n">>,
     excl |-> ">", min |-> 0, b |-> <<">">>,
     value |-> "<", suf |-> <<"<", "/", "r", "u", "n", ">">>]

\* The pattern tried at position i: [ok, value, end |-> position after the
\* match].  Each run is followed by the character it excludes, so a greedy
\* run has nothing to give back.
NoFind == [ok |-> FALSE, value |-> <<>>, end |-> 0]
find_at(text, i, pattern) ==
    IF ~StartsAt(text, i, pattern.a) THEN NoFind
    ELSE LET p == i + Len(pattern.a)
             n == IF pattern.excl = None THEN 0
                  ELSE run_length(text, p, pattern.excl)
             q == p + n + Len(pattern.b)
             v == run_length(text, q, pattern.value)
         IN  IF /\ n >= pattern.min
                /\ StartsAt(text, p + n, pattern.b)
                /\ v >= 1
                /\ StartsAt(text, q + v, pattern.suf)
             THEN [ok |-> TRUE, value |-> SubSeq(text, q, q + v - 1),
                   end |-> q + v + Len(pattern.suf)]
             ELSE NoFind

\* re.findall(pattern, text) from position pos on: the captured values of
\* the non-overlapping matches, leftmost first.
RECURSIVE re_findall(_, _, _)
re_findall(text, pos, pattern) ==
    LET starts == {i \in pos..Len(text) :
                     text[i] = pattern.a[1] /\ find_at(text, i, pattern).ok}
    IN  IF starts = {} THEN <<>>
        ELSE LET m == find_at(text, Min(starts), pattern)
             IN  <<m.value>> \o re_findall(text, m.end, pattern)

Lower == {"a", "b", "c", "d", "e", "f", "g", "h", "i", "j", "k", "l", "m",
          "n", "o", "p", "q", "r", "s", "t", "u", "v", "w", "x", "y", "z"}

\* re.match(r'^[a-z_]+$', c): $ also matches before a final newline
is_technical_name(c) ==
    LET body == IF c # <<>> /\ c[Len(c)] = "\n"
                THEN SubSeq(c, 1, Len(c) - 1) ELSE c
    IN  /\ body # <<>>
        /\ \A k \in 1..Len(body) : body[k] \in Lower \cup {"_"}

\* No element of the sequence occurs twice.
NoDuplicates(seq) == \A i, j \in 1..Len(seq) : seq[i] = seq[j] => i = j

Contains(text, ch) == \E k \in 1..Len(text) : text[k] = ch
Range(seq) == {seq[k] : k \in 1..Len(seq)}

\* list(set(...)) lists a set in an order the program does not choose:
\* every ordering of the set may come out.
Orderings(S) ==
    {f \in [1..Cardinality(S) -> S] : \A x \in S : \E k \in DOMAIN f : f[k] = x}

\* The caption filter without its test for an ampersand.
caption_kept_no_amp_test(c) ==
    /\ ~is_technical_name(c)
    /\ ~Contains(c, "[")
    /\ ~(c # <<>> /\ c[1] = ".")

\* The filter on captions (lines 163-167)
caption_kept(c) ==
    /\ ~is_technical_name(c)
    /\ ~Contains(c, "[")
    /\ ~(c # <<>> /\ c[1] = ".")
    /\ ~Contains(c, "&")

\* The sets extract_translatable_texts builds, one per category, before
\* list() orders them.
extracted_sets(content) ==
    [worksheet_names |-> Range(re_findall(content, 1, worksheet_pattern)),
     dashboard_names |-> Range(re_findall(content, 1, dashboard_pattern)),
     captions        |-> {c \in Range(re_findall(content, 1, caption_pattern)) :
                              caption_kept(c)},
     aliases         |-> {a \in Range(re_findall(content, 1, alias_pattern)) :
                              ~Contains(a, "&")},
     descriptions    |-> {strip(d, Whitespace) :
                              d \in {e \in Range(re_findall(content, 1, run_pattern)) :
                                       /\ ~Contains(e, "&")
                                       /\ Len(strip(e, Whitespace)) > 0}},
     members         |-> {m \in Range(re_findall(content, 1, member_pattern)) :
                              ~Contains(m, "&")}]

\* The categories in the order of the dict texts_to_translate.
Categories == <<"worksheet_names", "dashboard_names", "captions", "aliases",
                "descriptions", "members">>

\* extract_translatable_texts(content): every result it may return.
extract_translatable_texts(content) ==
    LET sets == extracted_sets(content)
    IN  {r \in [Range(Categories) -> UNION {Orderings(sets[c]) : c \in Range(Categories)}] :
            \A c \in Range(Categories) : r[c] \in Orderings(sets[c])}

\* The places of a document the extractor looks at (and two it passes
\* over): what precedes the value and what follows it.
ExContexts == {
    <<<<"<", "w", "o", "r", "k", "s", "h", "e", "e", "t", " ", "n", "a",
        "m", "e", "=", "'">>,
      <<"'", ">">>>>,
    <<<<"<", "w", "o", "r", "k", "s", "h", "e", "e", "t", " ", "n", "a",
        "m", "e", "=", "'">>,
      <<"'", " ", "i", "d", "=", "'", "1", "'", ">">>>>,
    <<<<"<", "d", "a", "s", "h", "b", "o", "a", "r", "d", " ", "n", "a",
        "m", "e", "=", "'">>,
      <<"'", ">">>>>,
    <<<<"<", "c", " ", "c", "a", "p", "t", "i", "o", "n", "=", "'">>,
      <<"'", "/", ">">>>>,
    <<<<"<", "a", "l", "i", "a", "s", " ", "k", "e", "y", "=", "'", "k",
        "'", " ", "v", "a", "l", "u", "e", "=", "'">>,
      <<"'", " ", "/", ">">>>>,
    <<<<"<", "a", "l", "i", "a", "s", " ", "k", "e", "y", "=", "'", "'",
        " ", "v", "a", "l", "u", "e", "=", "'">>,
      <<"'", " ", "/", ">">>>>,
    <<<<"<", "m", "e", "m", "b", "e", "r", " ", "a", "l", "i", "a", "s",
        "=", "'">>,
      <<"'", "/", ">">>>>,
    <<<<"<", "r", "u", "n", ">">>,
      <<"<", "/", "r", "u", "n", ">">>>>,
    <<<<"<", "r", "u", "n", " ", "b", "=", "'", "1", "'", ">">>,
      <<"<", "/", "r", "u", "n", ">">>>> }

MaxValLen == 2
ExAlphabet == {"a", "_", "A", "[", "]", ".", "&", "\n"}
ExSecond == { <<>>, Element(CaptionContext, <<"A">>),
              Element(CaptionContext, <<"a", "]">>),
              Element(RunContext, <<"\n", "A">>) }
ExDocuments ==
    {Element(c, v) \o d :
        c \in ExContexts, v \in Texts(ExAlphabet, MaxValLen), d \in ExSecond}

ExtractIdle == ex_content = <<>> /\ ex_result = <<>>

ExtractInit ==
    /\ ex_content \in ExDocuments
    /\ ex_result = <<>>

\* One call of extract_translatable_texts; ex_result holds what it returned.
Extract ==
    /\ ex_result = <<>>
    /\ \E r \in extract_translatable_texts(ex_content) : ex_result' = <<r>>
    /\ UNCHANGED ex_content

(***************************************************************************)
(* translate_file, lines 344-358: applying the translations                *)
(***************************************************************************)

\* sorted(items, key=lambda x: len(x[0]), reverse=True): longest original
\* first; the sort is stable, pairs of equal length keep their order.
RECURSIVE sorted_by_length(_)
sorted_by_length(items) ==
    IF items = <<>> THEN <<>>
    ELSE LET longest == Max({Len(items[i][1]) : i \in 1..Len(items)})
             k == Min({i \in 1..Len(items) : Len(items[i][1]) = longest})
         IN  <<items[k]>>
             \o sorted_by_length(SubSeq(items, 1, k - 1)
                                 \o SubSeq(items, k + 1, Len(items)))

\* Documents of two or three elements whose values are A, B and AB.
ApDocuments ==
    { Element(CaptionContext, <<"A">>) \o Element(CaptionContext, <<"B">>),
      Element(CaptionContext, <<"A", "B">>) \o Element(RunContext, <<"A">>),
      Element(ZoneContext, <<"A", "B">>) \o Element(RunContext, <<" ", "B">>),
      Element(CaptionContext, <<"A">>) \o Element(CaptionContext, <<"A", "B">>)
         \o Element(RunContext, <<"B">>) }

\* What the service may have answered for an original.
ApTranslations == { <<"A">>, <<"B">>, <<"C">>, <<"T", "A">>, <<"1", "C">> }

MaxPairs == 2

\* The strings the extractor finds in a document.
Candidates(doc) ==
    UNION {extracted_sets(doc)[c] : c \in Range(Categories)}

\* The dicts of at most n pairs with keys among the originals.
RECURSIVE Dicts(_, _, _)
Dicts(originals, translations, n) ==
    IF n = 0 THEN {<<>>}
    ELSE LET shorter == Dicts(originals, translations, n - 1)
         IN  shorter \cup
             {Append(d, <<o, t>>) :
                d \in {e \in shorter : Len(e) = n - 1},
                o \in originals, t \in translations}

ApplyIdle ==
    /\ ap_content = <<>> /\ all_translations = <<>> /\ sorted_translations = <<>>
    /\ ap_index = 0 /\ translated_content = <<>> /\ total_replacements = 0
    /\ ap_log = <<>> /\ ap_pc = None

\* The state at line 344: the document read, the gateway's translations
\* gathered under keys the extractor found.
ApplyInit ==
    /\ ap_content \in ApDocuments
    /\ all_translations \in
          {d \in Dicts(Candidates(ap_content), ApTranslations, MaxPairs) :
              NoDuplicates([i \in 1..Len(d) |-> d[i][1]])}
    /\ sorted_translations = <<>>
    /\ ap_index = 0
    /\ translated_content = <<>>
    /\ total_replacements = 0
    /\ ap_log = <<>>
    /\ ap_pc = "sort"

\* Lines 346-350
SortTranslations ==
    /\ ap_pc = "sort"
    /\ translated_content' = ap_content
    /\ total_replacements' = 0
    /\ sorted_translations' = sorted_by_length(all_translations)
    /\ ap_pc' = "loop"
    /\ UNCHANGED <<ap_content, all_translations, ap_index, ap_log>>

\* Lines 352-356: one iteration of the loop, the pass of the next pair.
\* ap_log lists the pairs whose pass is complete.  An exception of
\* safe_replace leaves translate_file.
Pass ==
    /\ ap_pc = "loop"
    /\ ap_index < Len(sorted_translations)
    /\ LET pair == sorted_translations[ap_index + 1]
           r == safe_replace(translated_content, pair[1], pair[2])
       IN  IF r.raised
           THEN /\ ap_pc' = "raised"
                /\ UNCHANGED <<translated_content, total_replacements,
                               ap_index, ap_log>>
           ELSE /\ translated_content' = r.content
                /\ total_replacements' = total_replacements + r.count
                /\ ap_index' = ap_index + 1
                /\ ap_log' = Append(ap_log, pair)
                /\ ap_pc' = ap_pc
    /\ UNCHANGED <<ap_content, all_translations, sorted_translations>>

\* The loop ends (line 358).
PassesDone ==
    /\ ap_pc = "loop"
    /\ ap_index = Len(sorted_translations)
    /\ ap_pc' = "done"
    /\ UNCHANGED <<ap_content, all_translations, sorted_translations, ap_index,
                   translated_content, total_replacements, ap_log>>

(* A run of the program: module load, main, translate_file                 *)
(***************************************************************************)

TWB == <<".", "t", "w", "b">>

\* str.replace(old, new) for any non-empty old: the occurrences of old from
\* position i on, left to right and not overlapping, replaced by new.
RECURSIVE replace_all(_, _, _, _)
replace_all(text, i, old, new) ==
    IF i > Len(text) THEN <<>>
    ELSE IF StartsAt(text, i, old)
    THEN new \o replace_all(text, i + Len(old), old, new)
    ELSE <<text[i]>> \o replace_all(text, i + 1, old, new)

\* What datetime.now().strftime gives stands as one character.
Timestamp == <<"T">>

\* create_backup(file_path) on the files fs (a dict from path to content):
\* the backup's path, the files after it and the writes it made.
create_backup(fs, file_path, timestamp) ==
    LET backup_path_ == replace_all(file_path, 1, TWB,
                                    <<"_", "b", "a", "c", "k", "u", "p", "_">>
                                    \o timestamp \o TWB)
        content_     == dict_get(fs, file_path)
    IN  [backup_path |-> backup_path_,
         files  |-> dict_set(fs, backup_path_, content_),
         writes |-> << [path |-> backup_path_, by |-> "create_backup"] >>]

batch_size == 20

\* The first occurrences, in order, of the members of S in a list.
RECURSIVE first_in(_, _)
first_in(list, S) ==
    IF list = <<>> THEN <<>>
    ELSE IF Head(list) \in S
    THEN <<Head(list)>> \o first_in(Tail(list), S \ {Head(list)})
    ELSE first_in(Tail(list), S)

\* Every category's matches in the order of the document.
found(content) ==
    [worksheet_names |-> re_findall(content, 1, worksheet_pattern),
     dashboard_names |-> re_findall(content, 1, dashboard_pattern),
     captions        |-> re_findall(content, 1, caption_pattern),
     aliases         |-> re_findall(content, 1, alias_pattern),
     descriptions    |-> LET runs == re_findall(content, 1, run_pattern)
                         IN  [k \in 1..Len(runs) |-> strip(runs[k], Whitespace)],
     members         |-> re_findall(content, 1, member_pattern)]

\* Two of the results extract_translatable_texts may return: each
\* category's set listed in the order of the document, or in the reverse
\* order.
listed(content, reversed) ==
    Only({[c \in Range(Categories) |->
              Only({IF reversed
                    THEN [k \in 1..Len(l) |-> l[Len(l) + 1 - k]]
                    ELSE l : l \in {first_in(lists[c], sets[c])}})] :
          sets \in {extracted_sets(content)}, lists \in {found(content)}})

\* The decimal numeral of a number below 100.
DigitChar == <<"0", "1", "2", "3", "4", "5", "6", "7", "8", "9">>
numeral(n) ==
    IF n < 10 THEN <<DigitChar[n + 1]>>
    ELSE <<DigitChar[(n \div 10) + 1], DigitChar[(n % 10) + 1]>>

\* A reply in the format the prompt asks for: line k is "k. " and item k
\* behind a prefix.
RECURSIVE numbered_reply(_, _, _)
numbered_reply(batch, k, prefix) ==
    IF k > Len(batch) THEN <<>>
    ELSE (IF k > 1 THEN <<"\n">> ELSE <<>>)
         \o numeral(k) \o <<".", " ">> \o prefix \o batch[k]
         \o numbered_reply(batch, k + 1, prefix)

\* What the service may do on a batch: fail, answer in the format asked for,
\* answer with translations that begin with a digit, or answer without
\* numbering.  Batches of more than MaxVaried items get the first two only.
MaxVaried == 1
Responses(batch) ==
    {Raised, Reply(numbered_reply(batch, 1, <<"T">>))}
    \cup (IF Len(batch) > MaxVaried THEN {}
          ELSE {Reply(numbered_reply(batch, 1, <<"1">>)),
                Reply(<<"T">> \o batch[1])})

\* The paths of the command line: an input file named with and without
\* .twb, the output path main generates and an output path equal to the
\* input path (-o).
InputPaths == { <<"w">> \o TWB, <<"w">> }
DefaultOutput == <<"w", "_", "E", "N">> \o TWB
OutputPaths(input) == {DefaultOutput, input}

Upper == <<"A", "B", "C", "D", "E", "F", "G", "H", "I", "J", "K", "L", "M",
           "N", "O", "P", "Q", "R", "S", "T", "U", "V", "W", "X", "Y", "Z">>

RECURSIVE Join(_)
Join(texts) == IF texts = <<>> THEN <<>> ELSE Head(texts) \o Join(Tail(texts))

WorksheetContext ==
    <<<<"<", "w", "o", "r", "k", "s", "h", "e", "e", "t", " ", "n", "a", "m",
        "e", "=", "'">>,
      <<"'", ">">>>>
AliasContext ==
    <<<<"<", "a", "l", "i", "a", "s", " ", "k", "e", "y", "=", "'", "k", "'",
        " ", "v", "a", "l", "u", "e", "=", "'">>,
      <<"'", " ", "/", ">">>>>

\* A worksheet, one caption more than a batch holds, and an alias: four
\* batches in three categories.
LargeDocument ==
    Element(WorksheetContext, <<"Z">>)
    \o Join([k \in 1..(batch_size + 1) |-> Element(CaptionContext, <<Upper[k]>>)])
    \o Element(AliasContext, <<"Y">>)

\* A caption and a run; a document with nothing to translate.
SmallDocument == Element(CaptionContext, <<"A">>) \o Element(RunContext, <<"B">>)
EmptyDocument == Element(CaptionContext, <<"a">>)

\* The open() call that fails with an OSError, if any.
IoFaults == {None, "backup_read", "backup_write", "read", "write"}

RunIdle ==
    /\ pc = None /\ credential = FALSE /\ args_ok = FALSE /\ io_fault = None
    /\ input_path = <<>> /\ output_path = <<>> /\ files = <<>> /\ writes = <<>>
    /\ printed = <<>> /\ texts_by_type = <<>> /\ cat_index = 0
    /\ batch_start = 0 /\ gateway_log = <<>> /\ backup_path = <<>>
    /\ pre_valid = <<>> /\ post_valid = <<>> /\ escaped = FALSE
    /\ exit_code = None

\* The process starts: the environment, the command line and the files are
\* given.  The large document comes with the default paths and no fault.
RunInit ==
    /\ pc = "load"
    /\ credential \in BOOLEAN
    /\ args_ok \in BOOLEAN
    /\ io_fault \in IoFaults
    /\ input_path \in InputPaths
    /\ output_path \in OutputPaths(input_path)
    /\ files \in {<<>>}
          \cup {<< <<input_path, d>> >> : d \in {SmallDocument, EmptyDocument}}
          \cup (IF /\ credential /\ args_ok /\ io_fault = None
                   /\ input_path = <<"w">> \o TWB /\ output_path = DefaultOutput
                THEN {<< <<input_path, LargeDocument>> >>} ELSE {})
    /\ writes = <<>>
    /\ printed = <<>>
    /\ texts_by_type = <<>>
    /\ cat_index = 0
    /\ batch_start = 0
    /\ gateway_log = <<>>
    /\ backup_path = <<>>
    /\ pre_valid = <<>>
    /\ post_valid = <<>>
    /\ escaped = FALSE
    /\ exit_code = None

\* Lines 18-24: the module's top level.  Without the credential the
\* ValueError is not caught and the interpreter ends with status 1.
LoadModule ==
    /\ pc = "load"
    /\ IF credential
       THEN pc' = "main" /\ exit_code' = exit_code
       ELSE pc' = "exit" /\ exit_code' = 1
    /\ UNCHANGED <<credential, args_ok, io_fault, input_path, output_path,
                   files, writes, printed, texts_by_type, cat_index,
                   batch_start, gateway_log, backup_path, pre_valid,
                   post_valid, escaped>>

\* Lines 390-435: parse_args, which ends the process with status 2 on a
\* command line it rejects, and the paths.
ParseArgs ==
    /\ pc = "main"
    /\ IF args_ok
       THEN pc' = "check" /\ exit_code' = exit_code
       ELSE pc' = "exit" /\ exit_code' = 2
    /\ UNCHANGED <<credential, args_ok, io_fault, input_path, output_path,
                   files, writes, printed, texts_by_type, cat_index,
                   batch_start, gateway_log, backup_path, pre_valid,
                   post_valid, escaped>>

\* Lines 437-439
CheckInput ==
    /\ pc = "check"
    /\ IF input_path \in dict_keys(files)
       THEN pc' = "backup" /\ exit_code' = exit_code
       ELSE pc' = "exit" /\ exit_code' = 1
    /\ UNCHANGED <<credential, args_ok, io_fault, input_path, output_path,
                   files, writes, printed, texts_by_type, cat_index,
                   batch_start, gateway_log, backup_path, pre_valid,
                   post_valid, escaped>>

\* Line 295: translate_file calls create_backup; an OSError of one of its
\* open() calls leaves translate_file.
CreateBackup ==
    /\ pc = "backup"
    /\ IF io_fault \in {"backup_read", "backup_write"}
       THEN /\ pc' = "raised"
            /\ UNCHANGED <<files, writes, backup_path>>
       ELSE LET b == create_backup(files, input_path, Timestamp)
            IN  /\ files' = b.files
                /\ writes' = writes \o b.writes
                /\ backup_path' = b.backup_path
                /\ pc' = "read"
    /\ UNCHANGED <<credential, args_ok, io_fault, input_path, output_path,
                   printed, texts_by_type, cat_index, batch_start,
                   gateway_log, pre_valid, post_valid, escaped, exit_code>>
    /\ UNCHANGED apVars

\* Lines 298-299
ReadInput ==
    /\ pc = "read"
    /\ IF io_fault = "read"
       THEN pc' = "raised" /\ UNCHANGED apVars
       ELSE /\ pc' = "validate"
            /\ ap_content' = dict_get(files, input_path)
            /\ UNCHANGED <<all_translations, sorted_translations, ap_index,
                           translated_content, total_replacements, ap_log,
                           ap_pc>>
    /\ UNCHANGED <<credential, args_ok, io_fault, input_path, output_path,
                   files, writes, printed, texts_by_type, cat_index,
                   batch_start, gateway_log, backup_path, pre_valid,
                   post_valid, escaped, exit_code>>

\* Lines 301-308: validate_xml's verdict on the content is either one; the
\* run goes on in both cases.
ValidateOriginal ==
    /\ pc = "validate"
    /\ \E is_valid \in BOOLEAN : pre_valid' = <<is_valid>>
    /\ pc' = "extract"
    /\ UNCHANGED <<credential, args_ok, io_fault, input_path, output_path,
                   files, writes, printed, texts_by_type, cat_index,
                   batch_start, gateway_log, backup_path, post_valid,
                   escaped, exit_code>>
    /\ UNCHANGED apVars

\* Lines 310-322
ExtractTexts ==
    /\ pc = "extract"
    /\ \E reversed \in BOOLEAN : texts_by_type' = listed(ap_content, reversed)
    /\ all_translations' = <<>>
    /\ cat_index' = 1
    /\ batch_start' = 0
    /\ pc' = "translate"
    /\ UNCHANGED <<credential, args_ok, io_fault, input_path, output_path,
                   files, writes, printed, gateway_log, backup_path,
                   pre_valid, post_valid, escaped, exit_code>>
    /\ UNCHANGED <<ap_content, sorted_translations, ap_index,
                   translated_content, total_replacements, ap_log, ap_pc>>

\* Lines 330-336: one batch of a category goes to translate_with_claude and
\* what it returns is merged into all_translations.  gateway_log keeps, for
\* each call, the batch, whether the service failed, whether an exception
\* left translate_with_claude, and the map before and after.
TranslateBatch ==
    /\ pc = "translate"
    /\ cat_index <= Len(Categories)
    /\ batch_start < Len(texts_by_type[Categories[cat_index]])
    /\ LET items == texts_by_type[Categories[cat_index]]
           batch == SubSeq(items, batch_start + 1,
                           Min({batch_start + batch_size, Len(items)}))
       IN  \E response \in Responses(batch) :
           \E r \in {translate_with_claude(batch, response)} :
             /\ gateway_log' =
                   Append(gateway_log,
                          [text_type |-> Categories[cat_index],
                           i         |-> batch_start,
                           failed    |-> response.raised,
                           raised    |-> r.raised,
                           returned  |-> r.translations,
                           before    |-> all_translations])
             /\ IF r.raised
                THEN /\ pc' = "raised"
                     /\ UNCHANGED <<all_translations, batch_start>>
                ELSE /\ all_translations' =
                           dict_update(all_translations, r.translations)
                     /\ batch_start' = batch_start + batch_size
                     /\ pc' = pc
    /\ UNCHANGED <<credential, args_ok, io_fault, input_path, output_path,
                   files, writes, printed, texts_by_type, cat_index,
                   backup_path, pre_valid, post_valid, escaped, exit_code>>
    /\ UNCHANGED <<ap_content, sorted_translations, ap_index,
                   translated_content, total_replacements, ap_log, ap_pc>>

\* Lines 324-326 and 330: a category without items is passed over, and a
\* category whose batches are done is left.
NextCategory ==
    /\ pc = "translate"
    /\ cat_index <= Len(Categories)
    /\ batch_start >= Len(texts_by_type[Categories[cat_index]])
    /\ cat_index' = cat_index + 1
    /\ batch_start' = 0
    /\ UNCHANGED <<pc, credential, args_ok, io_fault, input_path, output_path,
                   files, writes, printed, texts_by_type, gateway_log,
                   backup_path, pre_valid, post_valid, escaped, exit_code>>
    /\ UNCHANGED apVars

\* Lines 342-344: the categories are done; the substitution loop
\* (SortTranslations, Pass, PassesDone) follows.
TranslationsDone ==
    /\ pc = "translate"
    /\ cat_index > Len(Categories)
    /\ pc' = "apply"
    /\ ap_pc' = "sort"
    /\ UNCHANGED <<credential, args_ok, io_fault, input_path, output_path,
                   files, writes, printed, texts_by_type, cat_index,
                   batch_start, gateway_log, backup_path, pre_valid,
                   post_valid, escaped, exit_code>>
    /\ UNCHANGED <<ap_content, all_translations, sorted_translations, ap_index,
                   translated_content, total_replacements, ap_log>>

\* The second check made fatal: translate_file raises when it fails.
ValidateTranslatedFatal ==
    /\ pc = "apply"
    /\ ap_pc = "done"
    /\ \E is_valid \in BOOLEAN :
          /\ post_valid' = <<is_valid>>
          /\ printed' = IF is_valid THEN printed
                        ELSE Append(printed, [line |-> 366, path |-> backup_path])
          /\ pc' = IF is_valid THEN "write" ELSE "raised"
    /\ UNCHANGED <<credential, args_ok, io_fault, input_path, output_path,
                   files, writes, texts_by_type, cat_index, batch_start,
                   gateway_log, backup_path, pre_valid, escaped, exit_code>>
    /\ UNCHANGED apVars

\* Lines 360-369: validate_xml's verdict on the translated content is
\* either one; a failure prints the backup's path (line 366) and the run
\* goes on.
ValidateTranslated ==
    /\ pc = "apply"
    /\ ap_pc = "done"
    /\ \E is_valid \in BOOLEAN :
          /\ post_valid' = <<is_valid>>
          /\ printed' = IF is_valid THEN printed
                        ELSE Append(printed, [line |-> 366, path |-> backup_path])
    /\ pc' = "write"
    /\ UNCHANGED <<credential, args_ok, io_fault, input_path, output_path,
                   files, writes, texts_by_type, cat_index, batch_start,
                   gateway_log, backup_path, pre_valid, escaped, exit_code>>
    /\ UNCHANGED apVars

\* Lines 372-385 and the return to main: the output's path is printed, the
\* translated content written, and the process ends with status 0.  An
\* OSError of open() leaves translate_file.
WriteOutput ==
    /\ pc = "write"
    /\ printed' = Append(printed, [line |-> 372, path |-> output_path])
    /\ IF io_fault = "write"
       THEN /\ pc' = "raised"
            /\ UNCHANGED <<files, writes, exit_code>>
       ELSE /\ files' = dict_set(files, output_path, translated_content)
            /\ writes' = Append(writes, [path |-> output_path,
                                         by   |-> "translate_file"])
            /\ pc' = "exit"
            /\ exit_code' = 0
    /\ UNCHANGED <<credential, args_ok, io_fault, input_path, output_path,
                   texts_by_type, cat_index, batch_start, gateway_log,
                   backup_path, pre_valid, post_valid, escaped>>
    /\ UNCHANGED apVars

\* Lines 450-458: main catches what leaves translate_file and ends the
\* process with status 1.
HandleError ==
    /\ pc = "raised" \/ (pc = "apply" /\ ap_pc = "raised")
    /\ escaped' = TRUE
    /\ pc' = "exit"
    /\ exit_code' = 1
    /\ UNCHANGED <<credential, args_ok, io_fault, input_path, output_path,
                   files, writes, printed, texts_by_type, cat_index,
                   batch_start, gateway_log, backup_path, pre_valid,
                   post_valid>>
    /\ UNCHANGED apVars

(***************************************************************************)
(* Specifications: one per component, the other components idle            *)
(***************************************************************************)

InitEscape ==
    /\ EscapeInit /\ ReplaceIdle /\ ParseIdle /\ ExtractIdle /\ ApplyIdle
    /\ RunIdle
NextEscape ==
    Escape /\ UNCHANGED <<srVars, twVars, exVars, apVars, runVars>>
SpecEscape == InitEscape /\ [][NextEscape]_vars

InitReplace ==
    /\ EscapeIdle /\ ReplaceInit /\ ParseIdle /\ ExtractIdle /\ ApplyIdle
    /\ RunIdle
NextReplace ==
    Replace /\ UNCHANGED <<escVars, twVars, exVars, apVars, runVars>>
SpecReplace == InitReplace /\ [][NextReplace]_vars

InitParse ==
    /\ EscapeIdle /\ ReplaceIdle /\ ParseInit /\ ExtractIdle /\ ApplyIdle
    /\ RunIdle
NextParse ==
    Translate /\ UNCHANGED <<escVars, srVars, exVars, apVars, runVars>>
SpecParse == InitParse /\ [][NextParse]_vars

InitExtract ==
    /\ EscapeIdle /\ ReplaceIdle /\ ParseIdle /\ ExtractInit /\ ApplyIdle
    /\ RunIdle
NextExtract ==
    Extract /\ UNCHANGED <<escVars, srVars, twVars, apVars, runVars>>
SpecExtract == InitExtract /\ [][NextExtract]_vars

InitApply ==
    /\ EscapeIdle /\ ReplaceIdle /\ ParseIdle /\ ExtractIdle /\ ApplyInit
    /\ RunIdle
NextApply ==
    \/ SortTranslations /\ UNCHANGED <<escVars, srVars, twVars, exVars, runVars>>
    \/ Pass /\ UNCHANGED <<escVars, srVars, twVars, exVars, runVars>>
    \/ PassesDone /\ UNCHANGED <<escVars, srVars, twVars, exVars, runVars>>
SpecApply == InitApply /\ [][NextApply]_vars

Init ==
    /\ EscapeIdle /\ ReplaceIdle /\ ParseIdle /\ ExtractIdle /\ ApplyIdle
    /\ RunInit
Next ==
    \/ LoadModule /\ UNCHANGED <<escVars, srVars, twVars, exVars, apVars>>
    \/ ParseArgs /\ UNCHANGED <<escVars, srVars, twVars, exVars, apVars>>
    \/ CheckInput /\ UNCHANGED <<escVars, srVars, twVars, exVars, apVars>>
    \/ CreateBackup /\ UNCHANGED <<escVars, srVars, twVars, exVars>>
    \/ ReadInput /\ UNCHANGED <<escVars, srVars, twVars, exVars>>
    \/ ValidateOriginal /\ UNCHANGED <<escVars, srVars, twVars, exVars>>
    \/ ExtractTexts /\ UNCHANGED <<escVars, srVars, twVars, exVars>>
    \/ TranslateBatch /\ UNCHANGED <<escVars, srVars, twVars, exVars>>
    \/ NextCategory /\ UNCHANGED <<escVars, srVars, twVars, exVars>>
    \/ TranslationsDone /\ UNCHANGED <<escVars, srVars, twVars, exVars>>
    \/ SortTranslations /\ UNCHANGED <<escVars, srVars, twVars, exVars, runVars>>
    \/ Pass /\ UNCHANGED <<escVars, srVars, twVars, exVars, runVars>>
    \/ PassesDone /\ UNCHANGED <<escVars, srVars, twVars, exVars, runVars>>
    \/ ValidateTranslated /\ UNCHANGED <<escVars, srVars, twVars, exVars>>
    \/ WriteOutput /\ UNCHANGED <<escVars, srVars, twVars, exVars>>
    \/ HandleError /\ UNCHANGED <<escVars, srVars, twVars, exVars>>
Spec == Init /\ [][Next]_vars

(***************************************************************************)
(* Claims                                                                  *)
(***************************************************************************)

\* C6: for every string s over the five reserved characters and ordinary
\* characters, escape_xml_attr(s) holds no raw < > ' or ", every & in it
\* starts one of the five entities, and reading it as an attribute value
\* (decoding the entities) gives back s exactly.
EscapeRoundTrip ==
    esc_result # <<>> =>
        LET out == esc_result[1]
        IN  /\ \A i \in 1..Len(out) : out[i] \notin {"<", ">", "'", "\""}
            /\ \A i \in 1..Len(out) : out[i] = "&" => EntityAt(out, i) # {}
            /\ attr_value(out, 1) = esc_text

\* An input that already reads as an entity, escaped.
EscapeRoundTripWitness ==
    /\ esc_text = LT
    /\ esc_result = << AMP \o <<"l", "t", ";">> >>

\* A pair safe_replace's guard skips.
NoOpPair ==
    sr_original = sr_translated \/ sr_original = <<>> \/ sr_translated = <<>>

\* C9: for a pair whose original equals its translation, or whose original
\* or translation is empty, every safe_replace pass returns the document it
\* was given and a count of zero, however many passes are made.
NoOpPairLeavesDocument ==
    NoOpPair =>
        \A k \in 1..Len(sr_result) :
            /\ ~sr_result[k].raised
            /\ sr_result[k].count = 0
            /\ sr_result[k].content = sr_result[1].arg
            /\ sr_content = sr_result[1].arg

\* Two passes of a pair with original = translated over a document in which
\* a rule's anchor holds the original.
NoOpPairWitness ==
    /\ Len(sr_result) = 2
    /\ sr_original = <<"A">> /\ sr_translated = <<"A">>
    /\ sr_content = Element(CaptionContext, <<"A">>)

\* The replacement the claim C1 describes: groups 1 and 3 as matched, and
\* between them escape_xml_attr(translated), character for character.
verbatim_parts(translated) ==
    <<Grp(1)>>
    \o [i \in 1..Len(escape_xml_attr(translated)) |->
            Lit(escape_xml_attr(translated)[i])]
    \o <<Grp(3)>>

\* C1: for every pair of different non-empty strings safe_replace returns
\* the document with each span matched by a rule replaced by exactly
\* escape_xml_attr(translated), the anchors before and after it unchanged,
\* also when translated holds digits, backslashes or reserved characters.
ReplaceInsertsEscapedTranslation ==
    ~NoOpPair =>
        \A k \in 1..Len(sr_result) :
            /\ ~sr_result[k].raised
            /\ sr_result[k].content =
                   apply_rules(sr_result[k].arg, Rules, sr_original,
                               verbatim_parts(sr_translated), 0).content

\* The response's text as translate_with_claude splits it.
ReplyLines == split_lines(strip(tw_response.text, Whitespace))

\* C4: for every reply text translate_with_claude returns without raising;
\* item i is a key of the mapping exactly when line i of the trimmed reply
\* exists and matches the numbered-line pattern, and its value is the rest
\* of that line with surrounding whitespace and leading/trailing single or
\* double quotes removed, by line position.
ReplyParsedByPosition ==
    (tw_result # <<>> /\ ~tw_response.raised) =>
        /\ ~tw_result[1].raised
        /\ \A i \in 1..Len(tw_items) :
             LET numbered == /\ i <= Len(ReplyLines)
                             /\ match_numbered(ReplyLines[i]).ok
             IN  /\ (tw_items[i] \in dict_keys(tw_result[1].translations))
                       <=> numbered
                 /\ numbered =>
                       dict_get(tw_result[1].translations, tw_items[i])
                       = strip(strip(match_numbered(ReplyLines[i]).rest, Whitespace),
                               {"'", "\""})


\* The non-empty values that follow caption=' in the document, each up to
\* the next quote.
CaptionAttributeValues ==
    LET opening == caption_pattern.a
    IN  {SubSeq(ex_content, i + Len(opening),
                i + Len(opening) + run_length(ex_content, i + Len(opening), "'") - 1) :
            i \in {j \in 1..Len(ex_content) :
                     /\ StartsAt(ex_content, j, opening)
                     /\ run_length(ex_content, j + Len(opening), "'") >= 1
                     /\ j + Len(opening)
                          + run_length(ex_content, j + Len(opening), "'")
                        <= Len(ex_content)}}

\* Lowercase letters and underscores only, at least one.
PureIdentifier(v) ==
    v # <<>> /\ \A k \in 1..Len(v) : v[k] \in Lower \cup {"_"}

\* What C10 says of every category: no duplicates, and no ampersand in a
\* caption, alias, member or description.
CategoriesClean(r) ==
    /\ \A c \in Range(Categories) : NoDuplicates(r[c])
    /\ \A c \in {"captions", "aliases", "members", "descriptions"} :
          \A k \in 1..Len(r[c]) : ~Contains(r[c][k], "&")

\* C10 as stated: the captions are exactly the caption values that are not
\* a pure lowercase-and-underscore identifier, hold no bracket character,
\* do not begin with a period and hold no ampersand.
CaptionsExactlyAsStated ==
    ex_result # <<>> =>
        /\ CategoriesClean(ex_result[1])
        /\ Range(ex_result[1].captions)
             = {v \in CaptionAttributeValues :
                  /\ ~PureIdentifier(v)
                  /\ ~Contains(v, "[") /\ ~Contains(v, "]")
                  /\ v[1] # "."
                  /\ ~Contains(v, "&")}

\* C10 (amended): every category is without duplicates and the captions,
\* aliases, members and descriptions hold no ampersand; the captions are
\* exactly the non-empty caption values that are not a lowercase-and-
\* underscore identifier (alone or followed by one final newline, as
\* ^[a-z_]+$ matches), hold no opening bracket "[", do not begin with a
\* period and hold no ampersand.
CaptionsExactly ==
    ex_result # <<>> =>
        /\ CategoriesClean(ex_result[1])
        /\ Range(ex_result[1].captions)
             = {v \in CaptionAttributeValues :
                  /\ ~PureIdentifier(v)
                  /\ ~(v[Len(v)] = "\n" /\ PureIdentifier(SubSeq(v, 1, Len(v) - 1)))
                  /\ ~Contains(v, "[")
                  /\ v[1] # "."
                  /\ ~Contains(v, "&")}

\* Two captions, one of them with an ampersand: only the other is extracted.
CaptionsExactlyWitness ==
    /\ ex_content = Element(CaptionContext, <<"A", "&">>)
                    \o Element(CaptionContext, <<"A">>)
    /\ ex_result # <<>>
    /\ ex_result[1].captions = << <<"A">> >>

\* A mark no document, original or rule holds, standing for what the pass
\* of pair k inserts.
mark(k) == "#" \o ToString(k)

\* The document with every span a pass of the pairs from k on matches in it
\* replaced by that pass's mark.
RECURSIVE marked(_, _, _)
marked(doc, pairs, k) ==
    IF k > Len(pairs) THEN doc
    ELSE IF pairs[k][1] = <<>> \/ pairs[k][2] = <<>> \/ pairs[k][1] = pairs[k][2]
    THEN marked(doc, pairs, k + 1)
    ELSE marked(apply_rules(doc, Rules, pattern_literal(re_escape(pairs[k][1])),
                            <<Grp(1), Lit(mark(k)), Grp(3)>>, 0).content,
                pairs, k + 1)

\* The marked document with each mark replaced by the escaped translation of
\* its own pair.
RECURSIVE filled(_, _)
filled(doc, pairs) ==
    IF doc = <<>> THEN <<>>
    ELSE (IF \E k \in 1..Len(pairs) : Head(doc) = mark(k)
          THEN escape_xml_attr(pairs[CHOOSE k \in 1..Len(pairs) :
                                         Head(doc) = mark(k)][2])
          ELSE <<Head(doc)>>)
         \o filled(Tail(doc), pairs)

\* C2: when translate_file has applied all passes, every span a pass
\* replaced holds the escaped translation of its own original: no later pass
\* has rewritten what an earlier pass inserted, and no fragment mixes two
\* translations.
SpansHoldOwnTranslation ==
    ap_pc = "done" =>
        translated_content
        = filled(marked(ap_content, sorted_translations, 1), sorted_translations)

\* The pairs whose pass has begun: the completed ones and the one that
\* raised.
passes_begun ==
    IF ap_pc = "raised"
    THEN Append(ap_log, sorted_translations[ap_index + 1])
    ELSE ap_log

\* C5: the passes come in non-increasing order of the length of the
\* original, the pass of a longer original complete before the pass of a
\* shorter one begins, and when translate_file has left the loop each pair
\* of the map has had exactly one pass.
PassesInLengthOrder ==
    /\ \A i, j \in 1..Len(passes_begun) :
          i < j => Len(passes_begun[i][1]) >= Len(passes_begun[j][1])
    /\ ap_pc \in {"done", "raised"} =>
          \A k \in 1..Len(all_translations) :
              Cardinality({i \in 1..Len(passes_begun) :
                              passes_begun[i] = all_translations[k]}) = 1

\* The batches translate_file makes of a category of n items: the values of
\* range(0, n, batch_size).
batch_starts(n) ==
    [j \in 1..((n + batch_size - 1) \div batch_size) |-> (j - 1) * batch_size]

\* Every batch of every category from category k on, in the order of the
\* loops.
RECURSIVE all_batches(_, _)
all_batches(texts, k) ==
    IF k > Len(Categories) THEN <<>>
    ELSE [j \in 1..Len(batch_starts(Len(texts[Categories[k]]))) |->
             <<Categories[k], batch_starts(Len(texts[Categories[k]]))[j]>>]
         \o all_batches(texts, k + 1)

\* The map after the call that gateway_log's entry k records.
map_after(k) ==
    IF k < Len(gateway_log) THEN gateway_log[k + 1].before ELSE all_translations

\* C3: when the service call or the parsing of its reply raises,
\* translate_with_claude returns an empty mapping and lets no exception
\* out; the map gathered so far stays as it was, and translate_file goes on
\* to call the gateway for every remaining batch of the category and for
\* every remaining category.
GatewayFailureNotFatal ==
    /\ \A k \in 1..Len(gateway_log) :
          /\ ~gateway_log[k].raised
          /\ gateway_log[k].failed =>
                /\ gateway_log[k].returned = <<>>
                /\ map_after(k) = gateway_log[k].before
          /\ map_after(k) = dict_update(gateway_log[k].before,
                                        gateway_log[k].returned)
    /\ ap_pc # None =>
          [k \in 1..Len(gateway_log) |->
              <<gateway_log[k].text_type, gateway_log[k].i>>]
          = all_batches(texts_by_type, 1)

\* The first batch of the captions failed after a translation had been
\* gathered; the second batch of the captions and the batch of the aliases
\* were still made and their translations gathered beside the earlier one.
GatewayFailureWitness ==
    /\ ap_pc = "sort"
    /\ Len(gateway_log) = 4
    /\ ~gateway_log[1].failed /\ gateway_log[2].before # <<>>
    /\ gateway_log[2].failed /\ gateway_log[2].text_type = "captions"
    /\ gateway_log[3].text_type = "captions" /\ gateway_log[3].i = batch_size
    /\ gateway_log[3].returned # <<>>
    /\ gateway_log[4].text_type = "aliases" /\ gateway_log[4].returned # <<>>
    /\ Len(all_translations) = 3

\* The input file is there when the process starts.
input_found == input_path \in dict_keys(files)

\* C7: the write of the output file comes after a completed create_backup,
\* whose write is the first write of the run and makes a copy of the input:
\* a file other than the input, holding the input's content; a run without
\* the credential or without the input file ends with nothing written.
BackupBeforeOutput ==
    /\ \A k \in 1..Len(writes) :
          writes[k].by = "translate_file" =>
              \E j \in 1..(k - 1) :
                  /\ writes[j].by = "create_backup"
                  /\ writes[j].path = backup_path
    /\ writes # <<>> => writes[1].by = "create_backup"
    /\ \A k \in 1..Len(writes) :
          writes[k].by = "create_backup" => writes[k].path # input_path
    /\ (Len(writes) = 1 /\ pc \in {"read", "validate"}) =>
          dict_get(files, backup_path) = dict_get(files, input_path)
    /\ (~credential \/ ~input_found) =>
          /\ writes = <<>>
          /\ backup_path = <<>>
          /\ Len(files) <= 1
          /\ pc = "exit" => exit_code # 0

\* What C8 says of the checks: once the second check has been made, the run
\* writes the output and ends with status 0 whatever the checks found,
\* unless the write itself fails; a failed second check has been reported
\* with the backup's path and the output's path.
ValidationNotFatal ==
    /\ (pc = "exit" /\ ~escaped /\ pre_valid # <<>>) =>
          /\ exit_code = 0
          /\ \E k \in 1..Len(writes) :
                writes[k] = [path |-> output_path, by |-> "translate_file"]
    /\ (pc = "exit" /\ post_valid # <<>> /\ io_fault # "write") =>
          /\ ~escaped
          /\ exit_code = 0
    /\ (pc = "exit" /\ post_valid = <<FALSE>>) =>
          /\ \E k \in 1..Len(printed) :
                printed[k] = [line |-> 366, path |-> backup_path]
          /\ \E k \in 1..Len(printed) :
                printed[k] = [line |-> 372, path |-> output_path]

\* C8 as stated: a failed check is never fatal, and the exit code is
\* non-zero exactly when the input file is missing or an exception leaves
\* translate_file.
ExitCodeAsStated ==
    /\ ValidationNotFatal
    /\ pc = "exit" => (exit_code # 0 <=> (~input_found \/ escaped))

\* C8: a failed check is never fatal, and the exit code is non-zero exactly
\* when the run ends before translate_file is called (no credential, a
\* command line parse_args rejects, no input file) or an exception leaves
\* translate_file.
ExitCode ==
    /\ ValidationNotFatal
    /\ pc = "exit" =>
          (exit_code # 0 <=>
              (~credential \/ ~args_ok \/ ~input_found \/ escaped))

\* A run in which both checks failed, and which wrote the output and ended
\* with status 0.
ExitCodeWitness ==
    /\ pc = "exit"
    /\ pre_valid = <<FALSE>> /\ post_valid = <<FALSE>>
    /\ exit_code = 0
    /\ Len(writes) = 2
    /\ Len(printed) = 2

====
